---------------------------- MODULE Spec2Model ----------------------------
(***************************************************************************)
(* Model of the Pulumi program src/__main__.py (PaaS_clco).                *)
(*                                                                         *)
(* The program is a straight-line script: it reads one configuration       *)
(* value, registers fourteen resource descriptors with the orchestration   *)
(* engine, calls one provider function (list_account_keys) and registers   *)
(* nine stack outputs.  The engine realizes the registered descriptors     *)
(* concurrently with the script, in any order that respects the            *)
(* output-to-input references between them, and keeps a snapshot of what   *)
(* it realized for the next apply.                                         *)
(***************************************************************************)
EXTENDS Naturals, Sequences, FiniteSets, TLC

VARIABLES
    cfgLocation,   \* the stack's "location" configuration value, or None
    accountExists, \* the account "ass7" (and its resource group) exists
    now,           \* the month in which the topology is applied
    run,           \* number of the current apply (1 = first)
    pc,            \* index of the next statement of the script
    location,      \* the script's variable `location`
    budget_name,   \* the script's variable `budget_name`
    cog_keys,      \* result of list_account_keys_output
    registered,    \* descriptors registered so far, in registration order
    exports,       \* pulumi.export registrations: name -> value source
    outs,          \* this apply: realized descriptor -> its outputs
    changes,       \* this apply: the resource changes the engine made
    status,        \* "running", "succeeded" or "failed"
    lastResult,    \* how the previous apply ended ("none" before the first)
    stack,         \* engine snapshot: logical name -> realized resource
    stackOutputs,  \* engine snapshot: published stack outputs
    cloudRg,       \* the resource group "paas-rg" exists at the provider
    error          \* the error the apply surfaced, or None

vars == << cfgLocation, accountExists, now, run, pc, location, budget_name,
           cog_keys, registered, exports, outs, changes, status, lastResult,
           stack, stackOutputs, cloudRg, error >>

None == "<none>"

(***************************************************************************)
(* Bounds of the model.                                                    *)
(***************************************************************************)
\* number of distinct values uuid.uuid4().hex[:8] is drawn from
NumUuids == 2
\* number of months after the budget window's end that an apply may happen
MonthsPastEnd == 1

(***************************************************************************)
(* Script constants (src/__main__.py lines 12-14, 88-97, 152).             *)
(***************************************************************************)
DefaultLocation == "westeurope"
email == "wi24b100@technikum-wien.at"
subscription_id == "64b584d9-7fa6-49e0-ae15-d41006efcf1b"
ass7_account_name == "ass7"
cognitive_endpoint == "https://" \o ass7_account_name \o ".cognitiveservices.azure.com/"
cog_account_id ==
    "/subscriptions/" \o subscription_id
        \o "/resourceGroups/paas-rg/providers/Microsoft.CognitiveServices/accounts/"
        \o ass7_account_name
web_app_name == "paas-webapp-demo-group-6"

\* variant of ConfigLocation that falls back only when the key is not set
ConfigLocation_OnlyUnset(cfg) == IF cfg = None THEN DefaultLocation ELSE cfg

\* config.get("location") or "westeurope": None and the empty string are falsy
ConfigLocation(cfg) == IF cfg = None \/ cfg = "" THEN DefaultLocation ELSE cfg

\* f"myBudget{uuid.uuid4().hex[:8]}"
BudgetName(hex8) == "myBudget" \o hex8

\* variant of WebAppUrl that exports the bare hostname
WebAppUrl_Bare(host) == host

\* the lambda of web_app.default_host_name.apply(lambda host: f"https://{host}")
WebAppUrl(host) == "https://" \o host

(***************************************************************************)
(* Property values.  A property of a descriptor is a literal, an output of *)
(* another descriptor (Out), or a field of the list_account_keys result.   *)
(***************************************************************************)
Lit(x) == [k |-> "lit", of |-> "", v |-> x]
Out(d, attr) == [k |-> "out", of |-> d, v |-> attr]
Key(field) == [k |-> "key", of |-> "cog_keys", v |-> field]

\* an Output transformed by the web_app_url lambda (line 191)
Apply(d, attr) == [k |-> "apply", of |-> d, v |-> attr]

(***************************************************************************)
(* The fourteen descriptors, named as the script's variables.              *)
(***************************************************************************)
resource_group ==
    [ logical |-> "paas_resource_group", type |-> "resources.ResourceGroup",
      props |-> [ resource_group_name |-> Lit("paas-rg"),
                  location |-> Lit(location) ] ]

vnet ==
    [ logical |-> "paas_vnet", type |-> "network.VirtualNetwork",
      props |-> [ resource_group_name |-> Lit("paas-rg"),
                  virtual_network_name |-> Lit("paas-vnet"),
                  location |-> Lit(location),
                  address_prefixes |-> Lit(<<"10.10.0.0/16">>) ] ]

app_subnet ==
    [ logical |-> "app_subnet", type |-> "network.Subnet",
      props |-> [ resource_group_name |-> Lit("paas-rg"),
                  virtual_network_name |-> Out("vnet", "name"),
                  subnet_name |-> Lit("app-subnet"),
                  address_prefix |-> Lit("10.10.1.0/24"),
                  delegations |-> Lit(<< [ name |-> "appDelegation",
                                           service_name |-> "Microsoft.Web/serverFarms" ] >>) ] ]

endpoint_subnet ==
    [ logical |-> "endpoint_subnet", type |-> "network.Subnet",
      props |-> [ resource_group_name |-> Lit("paas-rg"),
                  virtual_network_name |-> Out("vnet", "name"),
                  subnet_name |-> Lit("endpoint-subnet"),
                  address_prefix |-> Lit("10.10.2.0/24"),
                  private_endpoint_network_policies |-> Lit("Disabled") ] ]

\* variant of private_dns_zone named after the wrong private-link zone
private_dns_zone_WrongZone ==
    [ logical |-> "private_dns_zone", type |-> "network.PrivateZone",
      props |-> [ resource_group_name |-> Lit("paas-rg"),
                  private_zone_name |-> Lit("privatelink.azurewebsites.net"),
                  location |-> Lit("global") ] ]

private_dns_zone ==
    [ logical |-> "private_dns_zone", type |-> "network.PrivateZone",
      props |-> [ resource_group_name |-> Lit("paas-rg"),
                  private_zone_name |-> Lit("privatelink.cognitiveservices.azure.com"),
                  location |-> Lit("global") ] ]

vnet_dns_link ==
    [ logical |-> "vnet_dns_link", type |-> "network.VirtualNetworkLink",
      props |-> [ resource_group_name |-> Lit("paas-rg"),
                  private_zone_name |-> Out("private_dns_zone", "name"),
                  virtual_network_id |-> Out("vnet", "id"),
                  registration_enabled |-> Lit(FALSE),
                  location |-> Lit("global") ] ]

cog_private_endpoint ==
    [ logical |-> "cogPrivateEndpoint", type |-> "network.PrivateEndpoint",
      props |-> [ resource_group_name |-> Lit("paas-rg"),
                  private_endpoint_name |-> Lit("cog-pe"),
                  location |-> Lit(location),
                  subnet_id |-> Out("endpoint_subnet", "id"),
                  private_link_service_connections |->
                      Lit(<< [ name |-> "cogConnection",
                               private_link_service_id |-> cog_account_id,
                               group_ids |-> <<"account">> ] >>) ] ]

cog_private_dns_zone_group ==
    [ logical |-> "cogPrivateDnsZoneGroup", type |-> "network.PrivateDnsZoneGroup",
      props |-> [ private_dns_zone_group_name |-> Lit("cogZoneGroup"),
                  resource_group_name |-> Lit("paas-rg"),
                  private_endpoint_name |-> Out("cog_private_endpoint", "name"),
                  private_dns_zone_config_name |-> Lit("cogDnsConfig"),
                  private_dns_zone_id |-> Out("private_dns_zone", "id") ] ]

app_service_plan ==
    [ logical |-> "appServicePlan", type |-> "web.AppServicePlan",
      props |-> [ resource_group_name |-> Lit("paas-rg"),
                  name |-> Lit("paas-asp"),
                  location |-> Lit(location),
                  kind |-> Lit("linux"),
                  sku |-> Lit([ name |-> "P1v2", tier |-> "Premium", capacity |-> 3 ]),
                  reserved |-> Lit(TRUE) ] ]

\* variant of web_app that names its plan by a literal id, not by an output
web_app_LiteralPlan ==
    [ logical |-> "webApp", type |-> "web.WebApp",
      props |-> [ resource_group_name |-> Lit("paas-rg"),
                  name |-> Lit(web_app_name),
                  location |-> Lit(location),
                  server_farm_id |-> Lit("/subscriptions/" \o subscription_id
                      \o "/resourceGroups/paas-rg/web.AppServicePlan/paas-asp"),
                  https_only |-> Lit(TRUE),
                  kind |-> Lit("app,linux"),
                  site_config |-> Lit([ linux_fx_version |-> "PYTHON|3.9",
                                        always_on |-> TRUE,
                                        ftps_state |-> "Disabled" ]) ] ]

web_app ==
    [ logical |-> "webApp", type |-> "web.WebApp",
      props |-> [ resource_group_name |-> Lit("paas-rg"),
                  name |-> Lit(web_app_name),
                  location |-> Lit(location),
                  server_farm_id |-> Out("app_service_plan", "id"),
                  https_only |-> Lit(TRUE),
                  kind |-> Lit("app,linux"),
                  site_config |-> Lit([ linux_fx_version |-> "PYTHON|3.9",
                                        always_on |-> TRUE,
                                        ftps_state |-> "Disabled" ]) ] ]

\* variant of web_app_vnet_connection that names a descriptor declared later
web_app_vnet_connection_Forward ==
    [ logical |-> "webAppVnetConnection",
      type |-> "web.WebAppSwiftVirtualNetworkConnection",
      props |-> [ name |-> Out("web_app_source_control", "name"),
                  resource_group_name |-> Lit("paas-rg"),
                  subnet_resource_id |-> Out("app_subnet", "id") ] ]

web_app_vnet_connection ==
    [ logical |-> "webAppVnetConnection",
      type |-> "web.WebAppSwiftVirtualNetworkConnection",
      props |-> [ name |-> Out("web_app", "name"),
                  resource_group_name |-> Lit("paas-rg"),
                  subnet_resource_id |-> Out("app_subnet", "id") ] ]

app_settings ==
    [ logical |-> "webAppSettings", type |-> "web.WebAppApplicationSettings",
      props |-> [ name |-> Out("web_app", "name"),
                  resource_group_name |-> Lit("paas-rg"),
                  COG_SERVICES_ENDPOINT |-> Lit(cognitive_endpoint),
                  COG_SERVICES_KEY |-> Key("key1"),
                  WEBSITE_RUN_FROM_PACKAGE |-> Lit("0") ] ]

web_app_source_control ==
    [ logical |-> "webAppSourceControl", type |-> "web.WebAppSourceControl",
      props |-> [ name |-> Out("web_app", "name"),
                  resource_group_name |-> Lit("paas-rg"),
                  repo_url |-> Lit("https://github.com/StefanFHtechnikum/clco-demo"),
                  branch |-> Lit("main"),
                  is_git_hub_action |-> Lit(FALSE),
                  is_manual_integration |-> Lit(TRUE),
                  deployment_rollback_enabled |-> Lit(FALSE) ] ]

\* variant of my_budget whose forecast rule repeats the actual rule's threshold
my_budget_SameThreshold ==
    [ logical |-> budget_name, type |-> "costmanagement.Budget",
      props |-> [ scope |-> Lit("/subscriptions/" \o subscription_id),
                  amount |-> Lit(10),
                  category |-> Lit("Cost"),
                  time_grain |-> Lit("Monthly"),
                  start_date |-> Lit("2024-12-01T00:00:00Z"),
                  end_date |-> Lit("2025-12-31T00:00:00Z"),
                  notifications |-> Lit(
                      [ Actual_GreaterThan_80_Percent |->
                            [ enabled |-> TRUE, operator |-> "GreaterThan",
                              threshold |-> 80, contact_emails |-> <<email>>,
                              threshold_type |-> "Actual" ],
                        Forecasted_GreaterThan_100_Percent |->
                            [ enabled |-> TRUE, operator |-> "GreaterThan",
                              threshold |-> 80, contact_emails |-> <<email>>,
                              threshold_type |-> "Forecasted" ] ]) ] ]

my_budget ==
    [ logical |-> budget_name, type |-> "costmanagement.Budget",
      props |-> [ scope |-> Lit("/subscriptions/" \o subscription_id),
                  amount |-> Lit(10),
                  category |-> Lit("Cost"),
                  time_grain |-> Lit("Monthly"),
                  start_date |-> Lit("2024-12-01T00:00:00Z"),
                  end_date |-> Lit("2025-12-31T00:00:00Z"),
                  notifications |-> Lit(
                      [ Actual_GreaterThan_80_Percent |->
                            [ enabled |-> TRUE, operator |-> "GreaterThan",
                              threshold |-> 80, contact_emails |-> <<email>>,
                              threshold_type |-> "Actual" ],
                        Forecasted_GreaterThan_100_Percent |->
                            [ enabled |-> TRUE, operator |-> "GreaterThan",
                              threshold |-> 100, contact_emails |-> <<email>>,
                              threshold_type |-> "Forecasted" ] ]) ] ]

Vars == { "resource_group", "vnet", "app_subnet", "endpoint_subnet",
          "private_dns_zone", "vnet_dns_link", "cog_private_endpoint",
          "cog_private_dns_zone_group", "app_service_plan", "web_app",
          "web_app_vnet_connection", "app_settings", "web_app_source_control",
          "my_budget" }

Descriptor(v) ==
    CASE v = "resource_group" -> resource_group
      [] v = "vnet" -> vnet
      [] v = "app_subnet" -> app_subnet
      [] v = "endpoint_subnet" -> endpoint_subnet
      [] v = "private_dns_zone" -> private_dns_zone
      [] v = "vnet_dns_link" -> vnet_dns_link
      [] v = "cog_private_endpoint" -> cog_private_endpoint
      [] v = "cog_private_dns_zone_group" -> cog_private_dns_zone_group
      [] v = "app_service_plan" -> app_service_plan
      [] v = "web_app" -> web_app
      [] v = "web_app_vnet_connection" -> web_app_vnet_connection
      [] v = "app_settings" -> app_settings
      [] v = "web_app_source_control" -> web_app_source_control
      [] v = "my_budget" -> my_budget

(***************************************************************************)
(* The script, statement by statement.                                     *)
(***************************************************************************)
Config == [op |-> "config", var |-> "", src |-> Lit("")]
Resource(v) == [op |-> "resource", var |-> v, src |-> Lit("")]
Invoke == [op |-> "invoke", var |-> "cog_keys", src |-> Lit("")]
Export(name, src) == [op |-> "export", var |-> name, src |-> src]
Uuid == [op |-> "uuid", var |-> "budget_name", src |-> Lit("")]

Program ==
    << Config,
       Resource("resource_group"),
       Export("resource_group_name", Out("resource_group", "name")),
       Resource("vnet"),
       Resource("app_subnet"),
       Resource("endpoint_subnet"),
       Export("vnet_name", Out("vnet", "name")),
       Export("app_subnet_name", Out("app_subnet", "name")),
       Export("endpoint_subnet_name", Out("endpoint_subnet", "name")),
       Resource("private_dns_zone"),
       Resource("vnet_dns_link"),
       Export("private_dns_zone_name", Out("private_dns_zone", "name")),
       Invoke,
       Export("cognitive_service_name", Lit(ass7_account_name)),
       Export("cognitive_endpoint", Lit(cognitive_endpoint)),
       Export("cognitive_key", Key("key1")),
       Resource("cog_private_endpoint"),
       Resource("cog_private_dns_zone_group"),
       Resource("app_service_plan"),
       Resource("web_app"),
       Resource("web_app_vnet_connection"),
       Resource("app_settings"),
       Export("web_app_url", Apply("web_app", "default_host_name")),
       Resource("web_app_source_control"),
       Uuid,
       Resource("my_budget") >>

ExportNames == { Program[i].var : i \in { j \in 1..Len(Program) : Program[j].op = "export" } }

Done == Len(Program) + 1

(***************************************************************************)
(* Inputs of an apply.                                                     *)
(***************************************************************************)
\* values of the "location" configuration key; None when the key is not set
ConfigValues == { None, "", "northeurope" }

\* values uuid.uuid4().hex[:8] may take
Hex8 == << "0a1b2c3d", "4e5f6071", "8293a4b5", "c6d7e8f9" >>
Uuids == { Hex8[i] : i \in 1..NumUuids }

\* the value of cog_keys before the call has returned
NoKeys == [ key1 |-> None, key2 |-> None ]

\* the keys of the pre-existing account "ass7"
AccountKeys == [ key1 |-> "ass7-key1", key2 |-> "ass7-key2" ]

\* decimal parsing of the date literals "YYYY-MM-DDT00:00:00Z"
DigitVal(c) == CHOOSE d \in 0..9 : SubSeq("0123456789", d + 1, d + 1) = c
RECURSIVE ParseNat(_)
ParseNat(s) ==
    IF Len(s) = 0 THEN 0
    ELSE 10 * ParseNat(SubSeq(s, 1, Len(s) - 1)) + DigitVal(SubSeq(s, Len(s), Len(s)))
MonthOf(date) == 12 * ParseNat(SubSeq(date, 1, 4)) + ParseNat(SubSeq(date, 6, 7)) - 1

StartMonth == MonthOf(my_budget.props.start_date.v)
EndMonth == MonthOf(my_budget.props.end_date.v)

\* months at which an apply may run: the window's last month and later ones
ApplyTimes == { EndMonth + k : k \in 0..MonthsPastEnd }

(***************************************************************************)
(* The engine's view of a registered descriptor.                           *)
(***************************************************************************)
\* the descriptors whose outputs d consumes
Deps(d) == { d.props[x].of : x \in { y \in DOMAIN d.props : d.props[y].k = "out" } }

\* the (descriptor, attribute) pairs d references
Refs(d) ==
    { << d.props[x].of, d.props[x].v >> :
          x \in { y \in DOMAIN d.props : d.props[y].k = "out" } }

Realized == DOMAIN outs

RegisteredSet == { registered[i] : i \in 1..Len(registered) }

Resolve(p) ==
    CASE p.k = "lit" -> p.v
      [] p.k = "out" -> outs[p.of][p.v]
      [] p.k = "key" -> cog_keys[p.v]
      [] p.k = "apply" -> WebAppUrl(outs[p.of][p.v])

Resolvable(p) ==
    CASE p.k = "lit" -> TRUE
      [] p.k = "out" -> p.of \in Realized
      [] p.k = "key" -> cog_keys # NoKeys
      [] p.k = "apply" -> p.of \in Realized

Inputs(d) == [ x \in DOMAIN d.props |-> Resolve(d.props[x]) ]

(***************************************************************************)
(* The provider: names, identifiers and checks of the resources it makes.  *)
(***************************************************************************)
RgScope == "/subscriptions/" \o subscription_id \o "/resourceGroups/paas-rg"

PhysicalName(d, in) ==
    CASE d.type = "resources.ResourceGroup" -> in.resource_group_name
      [] d.type = "network.VirtualNetwork" -> in.virtual_network_name
      [] d.type = "network.Subnet" -> in.subnet_name
      [] d.type = "network.PrivateZone" -> in.private_zone_name
      [] d.type = "network.PrivateEndpoint" -> in.private_endpoint_name
      [] d.type = "network.PrivateDnsZoneGroup" -> in.private_dns_zone_group_name
      [] d.type \in { "web.AppServicePlan", "web.WebApp" } -> in.name
      [] d.type = "web.WebAppSwiftVirtualNetworkConnection" -> "virtualNetwork"
      [] d.type = "web.WebAppApplicationSettings" -> "appsettings"
      [] d.type = "web.WebAppSourceControl" -> "web"
      [] OTHER -> d.logical

ParentPath(d, in) ==
    CASE d.type = "network.Subnet" -> "/virtualNetworks/" \o in.virtual_network_name
      [] d.type = "network.VirtualNetworkLink" -> "/privateDnsZones/" \o in.private_zone_name
      [] d.type = "network.PrivateDnsZoneGroup" -> "/privateEndpoints/" \o in.private_endpoint_name
      [] d.type \in { "web.WebAppSwiftVirtualNetworkConnection",
                      "web.WebAppApplicationSettings",
                      "web.WebAppSourceControl" } -> "/sites/" \o in.name
      [] OTHER -> ""

ArmId(d, in) ==
    IF d.type = "resources.ResourceGroup" THEN RgScope
    ELSE IF d.type = "costmanagement.Budget" THEN in.scope \o "/budgets/" \o d.logical
    ELSE RgScope \o ParentPath(d, in) \o "/" \o d.type \o "/" \o PhysicalName(d, in)

\* hostnames the provider may generate for a web app of the given name
DefaultHostNames(name) ==
    { name \o ".azurewebsites.net", name \o "-a7c3.westeurope-01.azurewebsites.net" }

\* the operation is addressed to the resource group "paas-rg"
TargetsRg(d) == "resource_group_name" \in DOMAIN d.props /\ d.type # "resources.ResourceGroup"

\* the budget's time window is present or future at month t
WindowAccepted(in, t) == t <= MonthOf(in.end_date)

\* the error of creating d with inputs in, or None
ProviderError(d, in) ==
    IF TargetsRg(d) /\ ~cloudRg THEN "ResourceGroupNotFound"
    ELSE IF d.type = "costmanagement.Budget" /\ ~WindowAccepted(in, now) THEN "BudgetRejected"
    ELSE None

(***************************************************************************)
(* State at the start of the first apply.                                  *)
(***************************************************************************)
Empty == [ x \in {} |-> None ]

Init ==
    /\ cfgLocation \in ConfigValues
    /\ accountExists \in BOOLEAN
    /\ cloudRg = accountExists
    /\ run = 1
    /\ pc = 1
    /\ location = None
    /\ budget_name = None
    /\ now \in ApplyTimes
    /\ cog_keys = NoKeys
    /\ registered = << >>
    /\ exports = Empty
    /\ outs = Empty
    /\ changes = {}
    /\ status = "running"
    /\ lastResult = "none"
    /\ stack = Empty
    /\ stackOutputs = Empty
    /\ error = None

Running == status = "running" /\ pc < Done

(***************************************************************************)
(* The script's statements.                                                *)
(***************************************************************************)
\* lines 11-12
LoadConfig ==
    /\ Running
    /\ Program[pc].op = "config"
    /\ location' = ConfigLocation(cfgLocation)
    /\ pc' = pc + 1
    /\ UNCHANGED << cfgLocation, accountExists, now, run, budget_name, cog_keys,
                    registered, exports, outs, changes, status, lastResult,
                    stack, stackOutputs, cloudRg, error >>

\* a resource constructor: the descriptor is registered with the engine
Register ==
    /\ Running
    /\ Program[pc].op = "resource"
    /\ registered' = Append(registered, Program[pc].var)
    /\ pc' = pc + 1
    /\ UNCHANGED << cfgLocation, accountExists, now, run, location, budget_name,
                    cog_keys, exports, outs, changes, status, lastResult,
                    stack, stackOutputs, cloudRg, error >>

\* pulumi.export(name, value)
ExportOutput ==
    /\ Running
    /\ Program[pc].op = "export"
    /\ exports' = [ n \in DOMAIN exports \cup { Program[pc].var } |->
                        IF n = Program[pc].var THEN Program[pc].src ELSE exports[n] ]
    /\ pc' = pc + 1
    /\ UNCHANGED << cfgLocation, accountExists, now, run, location, budget_name,
                    cog_keys, registered, outs, changes, status, lastResult,
                    stack, stackOutputs, cloudRg, error >>

\* lines 92-95: the arguments are literals, so the call waits for nothing
ListAccountKeys ==
    /\ Running
    /\ Program[pc].op = "invoke"
    /\ IF accountExists
       THEN /\ cog_keys' = AccountKeys
            /\ pc' = pc + 1
            /\ UNCHANGED << status, error >>
       ELSE /\ status' = "failed"
            /\ error' = "AccountNotFound"
            /\ UNCHANGED << cog_keys, pc >>
    /\ UNCHANGED << cfgLocation, accountExists, now, run, location, budget_name,
                    registered, exports, outs, changes, lastResult,
                    stack, stackOutputs, cloudRg >>

\* line 209
DrawBudgetName ==
    /\ Running
    /\ Program[pc].op = "uuid"
    /\ \E u \in Uuids : budget_name' = BudgetName(u)
    /\ pc' = pc + 1
    /\ UNCHANGED << cfgLocation, accountExists, now, run, location, cog_keys,
                    registered, exports, outs, changes, status, lastResult,
                    stack, stackOutputs, cloudRg, error >>

(***************************************************************************)
(* The engine.                                                             *)
(***************************************************************************)
Ready(v) ==
    /\ status = "running"
    /\ v \in RegisteredSet
    /\ v \notin Realized
    /\ Deps(Descriptor(v)) \subseteq Realized

Extend(f, x, y) == [ z \in DOMAIN f \cup {x} |-> IF z = x THEN y ELSE f[z] ]

\* the snapshot holds the descriptor with the same inputs: nothing to do
RealizeSame(v) ==
    LET d == Descriptor(v)
        in == Inputs(d)
    IN  /\ Ready(v)
        /\ d.logical \in DOMAIN stack
        /\ stack[d.logical].inputs = in
        /\ outs' = Extend(outs, v, stack[d.logical].outs)
        /\ UNCHANGED << cfgLocation, accountExists, now, run, pc, location,
                        budget_name, cog_keys, registered, exports, changes,
                        status, lastResult, stack, stackOutputs, cloudRg, error >>

\* the provider creates (or updates) the resource and confirms it
RealizeChange(v) ==
    LET d == Descriptor(v)
        in == Inputs(d)
        op == IF d.logical \in DOMAIN stack THEN "update" ELSE "create"
    IN  /\ Ready(v)
        /\ d.logical \in DOMAIN stack => stack[d.logical].inputs # in
        /\ ProviderError(d, in) = None
        /\ \E host \in IF d.type = "web.WebApp" THEN DefaultHostNames(in.name) ELSE { None } :
              LET o == [ name |-> PhysicalName(d, in), id |-> ArmId(d, in),
                         default_host_name |-> host ]
              IN  /\ outs' = Extend(outs, v, o)
                  /\ stack' = Extend(stack, d.logical,
                                     [ type |-> d.type, inputs |-> in, outs |-> o ])
        /\ changes' = changes \cup { << op, d.logical >> }
        /\ cloudRg' = (cloudRg \/ d.type = "resources.ResourceGroup")
        /\ UNCHANGED << cfgLocation, accountExists, now, run, pc, location,
                        budget_name, cog_keys, registered, exports, status,
                        lastResult, stackOutputs, error >>

\* the provider rejects the resource: the apply ends with the error
RealizeFail(v) ==
    LET d == Descriptor(v)
        in == Inputs(d)
    IN  /\ Ready(v)
        /\ d.logical \in DOMAIN stack => stack[d.logical].inputs # in
        /\ ProviderError(d, in) # None
        /\ status' = "failed"
        /\ error' = ProviderError(d, in)
        /\ UNCHANGED << cfgLocation, accountExists, now, run, pc, location,
                        budget_name, cog_keys, registered, exports, outs, changes,
                        lastResult, stack, stackOutputs, cloudRg >>

LogicalNames == { Descriptor(registered[i]).logical : i \in 1..Len(registered) }

ExportValue(n) ==
    IF n \in DOMAIN exports /\ Resolvable(exports[n]) THEN Resolve(exports[n]) ELSE None

\* the script has ended and everything registered is realized: the engine
\* deletes what the snapshot holds and the script no longer declares, and
\* publishes the stack outputs
FinishApply ==
    /\ status = "running"
    /\ pc = Done
    /\ RegisteredSet \subseteq Realized
    /\ LET stale == DOMAIN stack \ LogicalNames
       IN  /\ stack' = [ n \in DOMAIN stack \ stale |-> stack[n] ]
           /\ changes' = changes \cup { << "delete", n >> : n \in stale }
    /\ stackOutputs' = [ n \in DOMAIN exports |-> ExportValue(n) ]
    /\ status' = "succeeded"
    /\ UNCHANGED << cfgLocation, accountExists, now, run, pc, location,
                    budget_name, cog_keys, registered, exports, outs, lastResult,
                    cloudRg, error >>

\* after a successful first apply, the same program is applied again with
\* the same configuration
StartApply ==
    /\ status = "succeeded"
    /\ run = 1
    /\ run' = run + 1
    /\ lastResult' = status
    /\ pc' = 1
    /\ location' = None
    /\ budget_name' = None
    /\ cog_keys' = NoKeys
    /\ registered' = << >>
    /\ exports' = Empty
    /\ outs' = Empty
    /\ changes' = {}
    /\ status' = "running"
    /\ error' = None
    /\ UNCHANGED << cfgLocation, accountExists, now, stack, stackOutputs, cloudRg >>

Next ==
    \/ LoadConfig
    \/ Register
    \/ ExportOutput
    \/ ListAccountKeys
    \/ DrawBudgetName
    \/ \E v \in Vars : RealizeSame(v)
    \/ \E v \in Vars : RealizeChange(v)
    \/ \E v \in Vars : RealizeFail(v)
    \/ FinishApply
    \/ StartApply

Spec == Init /\ [][Next]_vars

(***************************************************************************)
(* Properties.                                                             *)
(***************************************************************************)
AllRegistered == RegisteredSet = Vars

\* C1: applying the topology a second time with the same configuration
\* changes nothing: the second apply creates, updates and deletes no resource.
C1_SecondApplyChangesNothing == run = 2 => changes = {}

\* the output attributes a resource of the provider publishes
OutputAttrs == { "name", "id", "default_host_name" }

\* position of descriptor v in the registration order (0 when not registered)
Position(v) ==
    IF v \in RegisteredSet
    THEN CHOOSE i \in 1..Len(registered) : registered[i] = v
    ELSE 0

ExportRefs ==
    { << exports[n].of, exports[n].v >> :
          n \in { m \in DOMAIN exports : exports[m].k \in { "out", "apply" } } }

AllRefs == ExportRefs \cup UNION { Refs(Descriptor(v)) : v \in RegisteredSet }

\* the references the topology is documented to contain
ListedRefs ==
    { << "vnet", "name" >>, << "vnet", "id" >>, << "endpoint_subnet", "id" >>,
      << "app_subnet", "id" >>, << "private_dns_zone", "name" >>,
      << "private_dns_zone", "id" >>, << "cog_private_endpoint", "name" >>,
      << "app_service_plan", "id" >>, << "web_app", "name" >>,
      << "web_app", "default_host_name" >> }

\* C2: every output a registered descriptor (or a stack output) references
\* belongs to a descriptor registered earlier in the script, so no reference
\* dangles and none closes a cycle; the listed references are all present
\* once the script has run.
C2_ReferencesResolveEarlier ==
    /\ \A v \in RegisteredSet : \A r \in Refs(Descriptor(v)) :
           /\ r[1] \in RegisteredSet
           /\ Position(r[1]) < Position(v)
           /\ r[2] \in OutputAttrs
    /\ \A r \in ExportRefs : r[1] \in RegisteredSet /\ r[2] \in OutputAttrs
    /\ pc = Done => ListedRefs \subseteq AllRefs

C2_Witness == pc = Done /\ AllRegistered /\ "web_app_url" \in DOMAIN exports

\* the places that hold the account key as a readable value
KeySinks ==
    { << "stack_output", n >> :
          n \in { m \in DOMAIN stackOutputs : stackOutputs[m] = AccountKeys.key1 } }
    \cup
    UNION { { << v, x >> : x \in { y \in DOMAIN Descriptor(v).props :
                                       Descriptor(v).props[y].k = "key" } } :
            v \in Realized }

\* C3: the retrieved account key reaches no sink other than the web app's
\* application setting COG_SERVICES_KEY; in particular it is never one of
\* the published stack outputs.
C3_KeyOnlyInAppSettings == KeySinks \subseteq { << "app_settings", "COG_SERVICES_KEY" >> }

\* the producer/consumer pairs of the topology
ConsumerPairs ==
    { << "vnet", "app_subnet" >>, << "vnet", "endpoint_subnet" >>,
      << "vnet", "vnet_dns_link" >>, << "private_dns_zone", "vnet_dns_link" >>,
      << "private_dns_zone", "cog_private_dns_zone_group" >>,
      << "endpoint_subnet", "cog_private_endpoint" >>,
      << "cog_private_endpoint", "cog_private_dns_zone_group" >>,
      << "app_service_plan", "web_app" >>,
      << "web_app", "web_app_vnet_connection" >>,
      << "web_app", "app_settings" >>,
      << "web_app", "web_app_source_control" >> }

\* C4: in every interleaving, a descriptor that consumes an output of
\* another is realized only after the other one's creation is confirmed.
C4_ConsumersAfterProducers ==
    \A p \in ConsumerPairs : p[2] \in Realized => p[1] \in Realized

\* unrelated descriptors in one of their two orders: endpoint-subnet before
\* app-subnet, application settings before the other web-app sub-resources
C4_Witness ==
    /\ run = 1
    /\ "endpoint_subnet" \in Realized /\ "app_subnet" \notin Realized
    /\ "app_settings" \in Realized
    /\ "web_app_source_control" \notin Realized
    /\ "web_app_vnet_connection" \notin Realized

\* the opposite orders of C4_Witness
C4_OtherOrder ==
    /\ run = 1
    /\ "app_subnet" \in Realized /\ "endpoint_subnet" \notin Realized
    /\ "web_app_source_control" \in Realized
    /\ "web_app_vnet_connection" \in Realized
    /\ "app_settings" \notin Realized

\* the provider's reserved private-link zone for cognitive services
ReservedZone == "privatelink.cognitiveservices.azure.com"

\* C5: the private DNS zone is named exactly as the reserved private-link
\* zone; after a successful apply that zone is the one linked to the network
\* paas-vnet and the one attached to the endpoint cog-pe, the endpoint sits
\* in endpoint-subnet of that network and targets the account, and the web
\* app is joined to app-subnet of the same network.
C5_PrivateResolutionPath ==
    /\ "private_dns_zone" \in RegisteredSet =>
           private_dns_zone.props.private_zone_name = Lit(ReservedZone)
    /\ status = "succeeded" =>
         LET zone == stack["private_dns_zone"]
             net == stack["paas_vnet"]
             link == stack["vnet_dns_link"]
             pe == stack["cogPrivateEndpoint"]
             group == stack["cogPrivateDnsZoneGroup"]
             asub == stack["app_subnet"]
             esub == stack["endpoint_subnet"]
             conn == stack["webAppVnetConnection"]
             app == stack["webApp"]
         IN  /\ zone.outs.name = ReservedZone
             /\ net.outs.name = "paas-vnet"
             /\ link.inputs.private_zone_name = zone.outs.name
             /\ link.inputs.virtual_network_id = net.outs.id
             /\ pe.outs.name = "cog-pe"
             /\ pe.inputs.subnet_id = esub.outs.id
             /\ esub.inputs.virtual_network_name = net.outs.name
             /\ pe.inputs.private_link_service_connections[1].private_link_service_id
                    = cog_account_id
             /\ group.inputs.private_endpoint_name = pe.outs.name
             /\ group.inputs.private_dns_zone_id = zone.outs.id
             /\ conn.inputs.name = app.outs.name
             /\ conn.inputs.subnet_resource_id = asub.outs.id
             /\ asub.inputs.virtual_network_name = net.outs.name

C5_Witness == status = "succeeded" /\ run = 1 /\ "cogPrivateDnsZoneGroup" \in DOMAIN stack

\* C6: whenever the output web_app_url has a value, the web app has been
\* realized and the value is "https://" followed by its generated hostname,
\* never the bare hostname; before the web app is realized it has no value.
C6_WebAppUrlIsHttps ==
    LET url == ExportValue("web_app_url")
    IN  /\ url # None =>
              /\ "web_app" \in Realized
              /\ SubSeq(url, 1, 8) = "https://"
              /\ SubSeq(url, 9, Len(url)) = outs["web_app"].default_host_name
              /\ url # outs["web_app"].default_host_name
        /\ "web_app" \notin Realized => url = None
        /\ status = "succeeded" =>
              /\ SubSeq(stackOutputs["web_app_url"], 1, 8) = "https://"
              /\ SubSeq(stackOutputs["web_app_url"], 9, Len(stackOutputs["web_app_url"]))
                     = stack["webApp"].outs.default_host_name

C6_Witness ==
    /\ ExportValue("web_app_url") # None
    /\ status = "succeeded"
    /\ outs["web_app"].default_host_name # web_app_name \o ".azurewebsites.net"

\* the descriptors that are declared in a region
Regional == { "resource_group", "vnet", "cog_private_endpoint", "app_service_plan", "web_app" }

\* C7 as stated: with "location" omitted every regional descriptor is
\* declared in "westeurope", and with "location" supplied every one is
\* declared in the supplied region.
C7_SuppliedRegionAlwaysUsed ==
    \A v \in RegisteredSet \cap Regional :
        Descriptor(v).props.location.v =
            IF cfgLocation = None THEN "westeurope" ELSE cfgLocation

\* C7 (amended): with "location" omitted or empty every regional descriptor
\* is declared in "westeurope", with a non-empty "location" supplied every
\* one is declared in the supplied region; so all of them share one region.
C7_RegionDefaulting ==
    \A v \in RegisteredSet \cap Regional :
        /\ Descriptor(v).props.location.v =
               IF cfgLocation = None \/ cfgLocation = "" THEN "westeurope" ELSE cfgLocation
        /\ \A w \in RegisteredSet \cap Regional :
               Descriptor(w).props.location = Descriptor(v).props.location

C7_Witness == cfgLocation = "" /\ Regional \subseteq RegisteredSet

\* C8: the budget declares exactly two notification rules, one on actual and
\* one on forecast spend, with thresholds 80 and 100 (distinct, increasing,
\* actual within 0..100, forecast not negative), each enabled and routed to
\* at least one email contact.
C8_BudgetNotifications ==
    "my_budget" \in RegisteredSet =>
        LET rules == my_budget.props.notifications.v
        IN  /\ Cardinality(DOMAIN rules) = 2
            /\ \E a, f \in DOMAIN rules :
                   /\ rules[a].threshold_type = "Actual"
                   /\ rules[f].threshold_type = "Forecasted"
                   /\ rules[a].threshold = 80
                   /\ rules[f].threshold = 100
                   /\ rules[a].threshold < rules[f].threshold
                   /\ rules[a].threshold \in 0..100
                   /\ rules[f].threshold >= 0
            /\ \A r \in DOMAIN rules :
                   /\ rules[r].enabled
                   /\ Len(rules[r].contact_emails) >= 1
                   /\ rules[r].operator = "GreaterThan"

C8_Witness == "my_budget" \in Realized /\ run = 1

\* C9: at every apply time the budget's time window is present or future,
\* so the provider never rejects the budget.
C9_WindowNeverPast ==
    /\ "my_budget" \in RegisteredSet => now <= MonthOf(my_budget.props.end_date.v)
    /\ error # "BudgetRejected"

\* C10: on a first apply, every operation addressed to the resource group
\* "paas-rg" (the realization of a descriptor in it, the key retrieval) is
\* issued only after the resource group descriptor has been realized.
C10_ResourceGroupFirst ==
    run = 1 =>
        /\ \A v \in Realized :
               TargetsRg(Descriptor(v)) => "resource_group" \in Realized
        /\ cog_keys # NoKeys => "resource_group" \in Realized
        /\ error \notin { "ResourceGroupNotFound", "AccountNotFound" }

=============================================================================
